---- MODULE Spec2Model ----
(***************************************************************************)
(* pk-verify: the storage-handler resolver (loader.go, type Loader) and    *)
(* the run of main (main.go): entry-point lookup, construction of the      *)
(* "/bs/" backend, the streaming capability check, the producer/consumer   *)
(* verification loop and the exit status.                                  *)
(*                                                                         *)
(* The specifications share the Loader's actions:                          *)
(*   Spec        one run of main() from line 186 on, that is, once the     *)
(*               configuration is loaded and translated, for every         *)
(*               configuration of ConfSpace and every bounded stream;      *)
(*   SpecFair    Spec under the fairness the Go scheduler gives;           *)
(*   SpecLoader  a client calling GetStorage / SetStorage / the factory on *)
(*               one Loader, one call after the other;                     *)
(*   SpecPeers   two such clients on two threads, their calls interleaved; *)
(*   SpecParse   parseLowLevelConfig (main.go:130-162) on every document   *)
(*               of DocSpace, then once more on the same document.         *)
(* The storage backends are perkeep's: the factory, the constructors, the  *)
(* streams and ValidContents are modelled at their interface, every        *)
(* outcome of each taken.                                                  *)
(***************************************************************************)
EXTENDS Integers, Sequences, FiniteSets, TLC

VARIABLES
    conf,        \* ld.conf.Prefixes: prefix -> [handler, args]   (read-only)
    sto,         \* ld.sto: [isNil, m]; m is the map prefix -> instance
    mu,          \* ld.mu: Unlocked, or the thread that locked it
    stack,       \* per thread: the call stack, a sequence of frames, top last
    ret,         \* per thread: the value the last returned call delivered
    nextInst,    \* the next fresh backend instance
    calls,       \* number of top-level calls the client has made (SpecLoader)
    log,         \* history of the Loader: constructions, cache writes, results
    pc,          \* main goroutine: "lookup", "create", "recv", "classify",
                 \* "summary", "wgerr", "exit"; "fatal" after a runtime
                 \* fatal error; "unused" in SpecLoader
    exitStatus,  \* os.Exit status, NoExit while main runs
    prod,        \* producer goroutine: "idle", "run", "send", "closed", "done"
    emitted,     \* the blobs given to the channel send so far, in order:
                 \* emitted[i] is TRUE iff the contents of blob i validate
    closed,      \* the channel blobs has been closed
    hand,        \* the blob the consumer received and has not classified, or 0
    received,    \* number of blobs the consumer took from the channel
    validations, \* validations[i]: number of ValidContents calls on blob i
    valid,       \* main.go:218
    invalid,     \* main.go:218
    invalidRefs, \* the refs printed by line 224, in order
    summary,     \* the final summary of lines 232-236, NoSummary until printed
    streamRes,   \* what StreamBlobs is about to return: "none", "nil", "error"
    wgErr,       \* wg's record of the producer's return value, "none" before
    doc0,        \* the document parseLowLevelConfig was first given
    doc,         \* obj, the document as the translation has changed it so far
    ppc,         \* parseLowLevelConfig: "start", "loop", "validate", "done";
                 \* "unused" outside SpecParse
    todo,        \* the keys of prefixes the range of line 135 has yet to visit
    result,      \* result.Prefixes, the map under construction
    returned,    \* the *LowLevelConfig of the last return: [isNil, m]
    perr,        \* the error of the last return, or the panic that ended it
    pass,        \* the number of the translation of doc0 under way: 1 or 2
    first        \* what the first translation returned: [returned, perr]

loaderVars == <<conf, sto, mu, stack, ret, nextInst, calls, log>>
mainVars == <<pc, exitStatus>>
pipeVars == <<prod, emitted, closed, hand, received, validations, valid,
              invalid, invalidRefs, summary, streamRes, wgErr>>
parseVars == <<doc0, doc, ppc, todo, result, returned, perr, pass, first>>
vars == <<conf, sto, mu, stack, ret, nextInst, calls, log, pc, exitStatus,
          prod, emitted, closed, hand, received, validations, valid,
          invalid, invalidRefs, summary, streamRes, wgErr,
          doc0, doc, ppc, todo, result, returned, perr, pass, first>>

----------------------------------------------------------------------------
(* Bounds *)

\* total number of prefix references in the handlerArgs of a configuration
MaxRefs == 2
\* number of top-level calls the client of SpecLoader makes
MaxCalls == 2
\* number of blobs a stream holds at most
MaxBlobs == 2
\* number of fields besides handler and handlerArgs in the entry of "/bs/"
\* in a document of SpecParse
MaxExtra == 1

----------------------------------------------------------------------------
(* Configurations *)

Prefixes == {"/bs/", "/a/", "/b/"}

BsPrefix == "/bs/"

\* Handler types as the factory knows them: the number of prefixes the
\* constructor resolves through the Loader, and whether the instance
\* implements blobserver.BlobStreamer.
HandlerTypes == {"diskpacked", "blobpacked", "replica"}

Arity(h) == CASE h = "diskpacked" -> 0
              [] h = "blobpacked" -> 2
              [] h = "replica" -> 1

IsStreamer(h) == h \in {"diskpacked", "blobpacked"}

SeqsOfLen(S, n) == [1..n -> S]

StorageConfigs(P) ==
    UNION {[handler : {h}, args : SeqsOfLen(P, Arity(h))] : h \in HandlerTypes}

RECURSIVE SumRefs(_, _)
SumRefs(c, D) ==
    IF D = {} THEN 0
    ELSE LET p == CHOOSE x \in D : TRUE
         IN Len(c[p].args) + SumRefs(c, D \ {p})

\* every LowLevelConfig over Prefixes with at most MaxRefs references
ConfSpace ==
    {c \in UNION {[D -> StorageConfigs(Prefixes)] : D \in SUBSET Prefixes} :
        SumRefs(c, DOMAIN c) <= MaxRefs}

RefsOf(c, p) == IF p \in DOMAIN c
                THEN {c[p].args[i] : i \in 1..Len(c[p].args)}
                ELSE {}

RECURSIVE ReachIn(_, _, _)
ReachIn(c, S, n) ==
    IF n = 0 THEN S
    ELSE ReachIn(c, S \cup UNION {RefsOf(c, q) : q \in S}, n - 1)

\* the prefixes the construction of p depends on, directly or not
DependsOn(c, p) == ReachIn(c, RefsOf(c, p), Cardinality(Prefixes))

Acyclic(c) == \A p \in DOMAIN c : p \notin DependsOn(c, p)

----------------------------------------------------------------------------
(* The Loader *)

MainThread == 0
ClientThread == 1
PeerThread == 2
Threads == {MainThread, ClientThread, PeerThread}

Unlocked == -1

NoRet == [kind |-> "none", sto |-> 0]
OkRet(s) == [kind |-> "ok", sto |-> s]
ErrRet == [kind |-> "err", sto |-> 0]

NilMap == [isNil |-> TRUE, m |-> <<>>]

Has(m, p) == p \in DOMAIN m

Put(m, p, s) == [x \in (DOMAIN m) \cup {p} |-> IF x = p THEN s ELSE m[x]]

Frame(fn, p, at, s) == [fn |-> fn, prefix |-> p, pc |-> at, i |-> 1, arg |-> s]

Top(t) == stack[t][Len(stack[t])]

HasTop(t) == Len(stack[t]) > 0

Pop(t) == [stack EXCEPT ![t] = SubSeq(@, 1, Len(@) - 1)]

Push(t, f) == [stack EXCEPT ![t] = Append(@, f)]

SetTop(t, f) == [stack EXCEPT ![t][Len(stack[t])] = f]

\* the caller's frame moves to pc `at` and the callee's frame f goes on top
CallFrom(t, at, f) ==
    [stack EXCEPT ![t] = Append([@ EXCEPT ![Len(@)].pc = at], f)]

Event(op, p, s) == [op |-> op, prefix |-> p, sto |-> s]

\* thread t is between ld.mu.Lock() and the deferred Unlock of a call:
\* where the cache map is read and written
Holding(t) ==
    \E i \in 1..Len(stack[t]) :
        /\ stack[t][i].fn \in {"GetStorage", "SetStorage"}
        /\ stack[t][i].pc \in {"locked", "create"}

\* ld.mu.Lock() returns only when nobody holds the mutex
CanLockMutantNoMutex == TRUE

CanLock == mu = Unlocked

\* the mutex after the deferred ld.mu.Unlock() of a call by t
ReleaseMutantKept(t) == t

Release(t) == Unlocked

\* ld.mu.Lock(), the first statement of SetStorage and of GetStorage.
\* sync.Mutex is not reentrant: the lock is granted only when nobody holds
\* it, the calling thread included.
Lock(t) ==
    /\ HasTop(t)
    /\ Top(t).fn \in {"GetStorage", "SetStorage"}
    /\ Top(t).pc = "lock"
    /\ CanLock
    /\ mu' = t
    /\ stack' = SetTop(t, [Top(t) EXCEPT !.pc = "locked"])
    /\ UNCHANGED <<parseVars, mainVars, pipeVars, conf, sto, ret, nextInst, calls, log>>

\* SetStorage, lines 58-62, with the deferred Unlock.
SetStorage(t) ==
    /\ HasTop(t)
    /\ Top(t).fn = "SetStorage"
    /\ Top(t).pc = "locked"
    /\ sto' = [isNil |-> FALSE, m |-> Put(sto.m, Top(t).prefix, Top(t).arg)]
    /\ log' = Append(log, Event("set", Top(t).prefix, Top(t).arg))
    /\ mu' = Release(t)
    /\ stack' = Pop(t)
    /\ ret' = [ret EXCEPT ![t] = NoRet]
    /\ UNCHANGED <<parseVars, mainVars, pipeVars, conf, nextInst, calls>>

\* GetStorage, lines 67-69: the prefix is cached.
GetStorageHit(t) ==
    /\ HasTop(t)
    /\ Top(t).fn = "GetStorage"
    /\ Top(t).pc = "locked"
    /\ Has(sto.m, Top(t).prefix)
    /\ ret' = [ret EXCEPT ![t] = OkRet(sto.m[Top(t).prefix])]
    /\ log' = Append(log, Event("get", Top(t).prefix, sto.m[Top(t).prefix]))
    /\ mu' = Release(t)
    /\ stack' = Pop(t)
    /\ UNCHANGED <<parseVars, mainVars, pipeVars, conf, sto, nextInst, calls>>

\* GetStorage, lines 70-76: not cached and not configured.
GetStorageNoConf(t) ==
    /\ HasTop(t)
    /\ Top(t).fn = "GetStorage"
    /\ Top(t).pc = "locked"
    /\ ~Has(sto.m, Top(t).prefix)
    /\ ~Has(conf, Top(t).prefix)
    /\ sto' = [sto EXCEPT !.isNil = FALSE]
    /\ ret' = [ret EXCEPT ![t] = ErrRet]
    /\ log' = Append(log, Event("fail", Top(t).prefix, 0))
    /\ mu' = Release(t)
    /\ stack' = Pop(t)
    /\ UNCHANGED <<parseVars, mainVars, pipeVars, conf, nextInst, calls>>

\* GetStorage, lines 70-77: not cached, configured: the factory is called
\* with the Loader itself, the mutex still held.
GetStorageCreate(t) ==
    /\ HasTop(t)
    /\ Top(t).fn = "GetStorage"
    /\ Top(t).pc = "locked"
    /\ ~Has(sto.m, Top(t).prefix)
    /\ Has(conf, Top(t).prefix)
    /\ sto' = [sto EXCEPT !.isNil = FALSE]
    /\ stack' = CallFrom(t, "create",
                         Frame("CreateStorage", Top(t).prefix, "args", 0))
    /\ log' = Append(log, Event("create", Top(t).prefix, 0))
    /\ ret' = [ret EXCEPT ![t] = NoRet]
    /\ UNCHANGED <<parseVars, mainVars, pipeVars, conf, mu, nextInst, calls>>

\* the cache after the return of line 79
KeepOnErrMutantCachesNil(m, p) == Put(m, p, 0)

KeepOnErr(m, p) == m

\* GetStorage, lines 78-80: the factory failed; nothing is cached.
GetStorageCreateErr(t) ==
    /\ HasTop(t)
    /\ Top(t).fn = "GetStorage"
    /\ Top(t).pc = "create"
    /\ ret[t].kind = "err"
    /\ sto' = [sto EXCEPT !.m = KeepOnErr(sto.m, Top(t).prefix)]
    /\ log' = Append(log, Event("fail", Top(t).prefix, 0))
    /\ mu' = Release(t)
    /\ stack' = Pop(t)
    /\ UNCHANGED <<parseVars, mainVars, pipeVars, conf, ret, nextInst, calls>>

\* the cache after line 81
StoreMutantNoCache(m, p, s) == m

Store(m, p, s) == Put(m, p, s)

\* GetStorage, lines 81-83: the instance is cached and returned.
GetStorageStore(t) ==
    /\ HasTop(t)
    /\ Top(t).fn = "GetStorage"
    /\ Top(t).pc = "create"
    /\ ret[t].kind = "ok"
    /\ sto' = [sto EXCEPT !.m = Store(sto.m, Top(t).prefix, ret[t].sto)]
    /\ log' = Append(Append(log, Event("cache", Top(t).prefix, ret[t].sto)),
                     Event("get", Top(t).prefix, ret[t].sto))
    /\ mu' = Release(t)
    /\ stack' = Pop(t)
    /\ UNCHANGED <<parseVars, mainVars, pipeVars, conf, ret, nextInst, calls>>

----------------------------------------------------------------------------
(* blobserver.CreateStorage(type, ld, args): the factory and the           *)
(* constructor it dispatches to.  The constructor resolves the prefixes    *)
(* its arguments name through ld.GetStorage, in order, gives up on the     *)
(* first error, and then either builds an instance or fails.               *)

\* the constructor calls ld.GetStorage(args[i])
CreateResolve(t) ==
    /\ HasTop(t)
    /\ Top(t).fn = "CreateStorage"
    /\ Top(t).pc = "args"
    /\ Top(t).i <= Len(conf[Top(t).prefix].args)
    /\ stack' = CallFrom(t, "wait",
                         Frame("GetStorage", conf[Top(t).prefix].args[Top(t).i],
                               "lock", 0))
    /\ ret' = [ret EXCEPT ![t] = NoRet]
    /\ UNCHANGED <<parseVars, mainVars, pipeVars, conf, sto, mu, nextInst, calls, log>>

\* ld.GetStorage returned a backend: on to the next argument
CreateResolved(t) ==
    /\ HasTop(t)
    /\ Top(t).fn = "CreateStorage"
    /\ Top(t).pc = "wait"
    /\ ret[t].kind = "ok"
    /\ stack' = SetTop(t, [Top(t) EXCEPT !.pc = "args", !.i = @ + 1])
    /\ ret' = [ret EXCEPT ![t] = NoRet]
    /\ UNCHANGED <<parseVars, mainVars, pipeVars, conf, sto, mu, nextInst, calls, log>>

\* ld.GetStorage returned an error: the constructor returns it
CreateResolveErr(t) ==
    /\ HasTop(t)
    /\ Top(t).fn = "CreateStorage"
    /\ Top(t).pc = "wait"
    /\ ret[t].kind = "err"
    /\ stack' = Pop(t)
    /\ UNCHANGED <<parseVars, mainVars, pipeVars, conf, sto, mu, ret, nextInst, calls, log>>

\* every argument is resolved: the constructor returns a new instance
CreateDone(t) ==
    /\ HasTop(t)
    /\ Top(t).fn = "CreateStorage"
    /\ Top(t).pc = "args"
    /\ Top(t).i > Len(conf[Top(t).prefix].args)
    /\ ret' = [ret EXCEPT ![t] = OkRet(nextInst)]
    /\ log' = Append(log, Event("new", Top(t).prefix, nextInst))
    /\ nextInst' = nextInst + 1
    /\ stack' = Pop(t)
    /\ UNCHANGED <<parseVars, mainVars, pipeVars, conf, sto, mu, calls>>

\* every argument is resolved, and the constructor fails on its own (a
\* directory that does not exist, an index that does not open)
CreateFail(t) ==
    /\ HasTop(t)
    /\ Top(t).fn = "CreateStorage"
    /\ Top(t).pc = "args"
    /\ Top(t).i > Len(conf[Top(t).prefix].args)
    /\ ret' = [ret EXCEPT ![t] = ErrRet]
    /\ stack' = Pop(t)
    /\ UNCHANGED <<parseVars, mainVars, pipeVars, conf, sto, mu, nextInst, calls, log>>

\* the steps of a GetStorage call and of the constructions it runs
ResolveStep(t) ==
    \/ Lock(t)
    \/ GetStorageHit(t)
    \/ GetStorageNoConf(t)
    \/ GetStorageCreate(t)
    \/ GetStorageCreateErr(t)
    \/ GetStorageStore(t)
    \/ CreateResolve(t)
    \/ CreateResolved(t)
    \/ CreateResolveErr(t)
    \/ CreateDone(t)
    \/ CreateFail(t)

----------------------------------------------------------------------------
(* SpecLoader: a client of one Loader *)

Idle(t) == stack[t] = <<>>

\* the client calls ld.GetStorage(p)
CallGetStorage(p) ==
    /\ Idle(ClientThread)
    /\ calls < MaxCalls
    /\ calls' = calls + 1
    /\ stack' = Push(ClientThread, Frame("GetStorage", p, "lock", 0))
    /\ ret' = [ret EXCEPT ![ClientThread] = NoRet]
    /\ UNCHANGED <<parseVars, mainVars, pipeVars, conf, sto, mu, nextInst, log>>

\* the client calls ld.SetStorage(p, s) with a backend s of its own
CallSetStorage(p) ==
    /\ Idle(ClientThread)
    /\ calls < MaxCalls
    /\ calls' = calls + 1
    /\ stack' = Push(ClientThread, Frame("SetStorage", p, "lock", nextInst))
    /\ nextInst' = nextInst + 1
    /\ ret' = [ret EXCEPT ![ClientThread] = NoRet]
    /\ UNCHANGED <<parseVars, mainVars, pipeVars, conf, sto, mu, log>>

\* the factory called directly with the Loader, as main does for "/bs/"
\* with its fresh Loader (main.go:186-196): the result is handed to the
\* caller, not to the cache
CreateTopLevel(t) ==
    /\ stack' = Push(t, Frame("CreateStorage", BsPrefix, "args", 0))
    /\ log' = Append(log, Event("direct", BsPrefix, 0))
    /\ ret' = [ret EXCEPT ![t] = NoRet]
    /\ UNCHANGED <<parseVars, pipeVars, conf, sto, mu, nextInst>>

CallCreateStorage ==
    /\ Idle(ClientThread)
    /\ Has(conf, BsPrefix)
    /\ calls = 0
    /\ calls < MaxCalls
    /\ calls' = calls + 1
    /\ CreateTopLevel(ClientThread)
    /\ UNCHANGED mainVars

InitLoader(C) ==
    /\ conf \in C
    /\ sto = NilMap
    /\ mu = Unlocked
    /\ stack = [t \in Threads |-> <<>>]
    /\ ret = [t \in Threads |-> NoRet]
    /\ nextInst = 1
    /\ calls = 0
    /\ log = <<>>

NoSummary == [kind |-> "none", invalid |-> 0, total |-> 0]

InitPipe ==
    /\ prod = "idle"
    /\ emitted = <<>>
    /\ closed = FALSE
    /\ hand = 0
    /\ received = 0
    /\ validations = <<>>
    /\ valid = 0
    /\ invalid = 0
    /\ invalidRefs = <<>>
    /\ summary = NoSummary
    /\ streamRes = "none"
    /\ wgErr = "none"

NoExit == -1

NoErr == [kind |-> "none", at |-> "", msgs |-> <<>>]

\* the translation is not part of the run: main is past line 185
ParseUnused ==
    /\ doc0 = <<>>
    /\ doc = <<>>
    /\ ppc = "unused"
    /\ todo = {}
    /\ result = <<>>
    /\ returned = NilMap
    /\ perr = NoErr
    /\ pass = 1
    /\ first = <<>>

LoaderInit ==
    /\ InitLoader(ConfSpace)
    /\ InitPipe
    /\ ParseUnused
    /\ pc = "unused"
    /\ exitStatus = NoExit

LoaderNext ==
    \/ \E p \in Prefixes : CallGetStorage(p)
    \/ \E p \in Prefixes : CallSetStorage(p)
    \/ CallCreateStorage
    \/ SetStorage(ClientThread)
    \/ ResolveStep(ClientThread)

SpecLoader == LoaderInit /\ [][LoaderNext]_vars

----------------------------------------------------------------------------
(* SpecPeers: two clients of one Loader, each on its own thread, their     *)
(* calls interleaved step by step                                          *)

\* the peer calls ld.GetStorage(p) while the client may be in a call
PeerGetStorage(p) ==
    /\ Idle(PeerThread)
    /\ calls < MaxCalls
    /\ calls' = calls + 1
    /\ stack' = Push(PeerThread, Frame("GetStorage", p, "lock", 0))
    /\ ret' = [ret EXCEPT ![PeerThread] = NoRet]
    /\ UNCHANGED <<parseVars, mainVars, pipeVars, conf, sto, mu, nextInst, log>>

\* the peer calls ld.SetStorage(p, s) with a backend s of its own
PeerSetStorage(p) ==
    /\ Idle(PeerThread)
    /\ calls < MaxCalls
    /\ calls' = calls + 1
    /\ stack' = Push(PeerThread, Frame("SetStorage", p, "lock", nextInst))
    /\ nextInst' = nextInst + 1
    /\ ret' = [ret EXCEPT ![PeerThread] = NoRet]
    /\ UNCHANGED <<parseVars, mainVars, pipeVars, conf, sto, mu, log>>

\* the configurations of SpecPeers: at most one entry names another
PeersConf == {c \in ConfSpace : SumRefs(c, DOMAIN c) <= 1}

PeersInit ==
    /\ InitLoader(PeersConf)
    /\ InitPipe
    /\ ParseUnused
    /\ pc = "unused"
    /\ exitStatus = NoExit

PeersNext ==
    \/ \E p \in Prefixes : CallGetStorage(p)
    \/ \E p \in Prefixes : CallSetStorage(p)
    \/ \E p \in Prefixes : PeerGetStorage(p)
    \/ \E p \in Prefixes : PeerSetStorage(p)
    \/ CallCreateStorage
    \/ \E t \in {ClientThread, PeerThread} : SetStorage(t)
    \/ \E t \in {ClientThread, PeerThread} : ResolveStep(t)

SpecPeers == PeersInit /\ [][PeersNext]_vars

----------------------------------------------------------------------------
(* main(), from the lookup of "/bs/" on (main.go:186-248) *)

\* line 186: lowLevelConfig.Prefixes["/bs/"] is present
HasEntryPointMutantAnyPrefix(c) == DOMAIN c # {}

HasEntryPoint(c) == Has(c, BsPrefix)

\* line 204: sto.(blobserver.BlobStreamer) succeeds for a backend of type h
StreamerAssertMutantSkip(h) == TRUE

StreamerAssert(h) == IsStreamer(h)

\* lines 186-192: the configuration has no "/bs/" prefix
MainNoBs ==
    /\ pc = "lookup"
    /\ ~HasEntryPoint(conf)
    /\ pc' = "exit"
    /\ exitStatus' = 1
    /\ UNCHANGED <<parseVars, loaderVars, pipeVars>>

\* line 196: the factory is called for "/bs/" with a fresh Loader
MainCreate ==
    /\ pc = "lookup"
    /\ HasEntryPoint(conf)
    /\ CreateTopLevel(MainThread)
    /\ pc' = "create"
    /\ UNCHANGED <<exitStatus, calls>>

\* line 196, inside the construction: the main goroutine is in
\* ld.mu.Lock() (loader.go:65) on the mutex it holds itself, and no other
\* goroutine exists yet.  The process hangs there, or the Go runtime finds
\* every goroutine asleep and ends the process with a fatal error,
\* status 2.  Both outcomes are kept: the step may or may not be taken.
FatalDeadlock ==
    /\ pc = "create"
    /\ HasTop(MainThread)
    /\ Top(MainThread).pc = "lock"
    /\ mu = MainThread
    /\ prod = "idle"
    /\ pc' = "fatal"
    /\ exitStatus' = 2
    /\ UNCHANGED <<parseVars, loaderVars, pipeVars>>

\* lines 197-200: the construction failed
MainCreateErr ==
    /\ pc = "create"
    /\ Idle(MainThread)
    /\ ret[MainThread].kind = "err"
    /\ pc' = "exit"
    /\ exitStatus' = 1
    /\ UNCHANGED <<parseVars, loaderVars, pipeVars>>

\* lines 204-210: the backend is no blobserver.BlobStreamer
MainNotStreamer ==
    /\ pc = "create"
    /\ Idle(MainThread)
    /\ ret[MainThread].kind = "ok"
    /\ ~StreamerAssert(conf[BsPrefix].handler)
    /\ pc' = "exit"
    /\ exitStatus' = 1
    /\ UNCHANGED <<parseVars, loaderVars, pipeVars>>

\* lines 204, 213-217: the channel is made, wg.Go starts the producer and
\* main enters the range loop
MainStartPipeline ==
    /\ pc = "create"
    /\ Idle(MainThread)
    /\ ret[MainThread].kind = "ok"
    /\ StreamerAssert(conf[BsPrefix].handler)
    /\ prod' = "run"
    /\ pc' = "recv"
    /\ UNCHANGED <<parseVars, loaderVars, exitStatus, emitted, closed, hand, received,
                   validations, valid, invalid, invalidRefs, summary,
                   streamRes, wgErr>>

(* streamer.StreamBlobs(ctx, blobs, ""), line 216.  The backend sends its  *)
(* blobs one by one on the unbuffered channel, closes the channel in every *)
(* case, and returns nil or an error.  The stream and the point of         *)
(* failure are the backend's; every choice is taken.                       *)

\* where the producer is once it has a blob to send on the channel of
\* line 213: in the send, until a receive takes the blob
AfterReadMutantDrop == "run"

AfterRead == "send"

\* the backend reads its next blob and starts the send; v tells whether
\* the blob's contents match its ref
StreamNext(v) ==
    /\ prod = "run"
    /\ Len(emitted) < MaxBlobs
    /\ emitted' = Append(emitted, v)
    /\ validations' = Append(validations, 0)
    /\ prod' = AfterRead
    /\ UNCHANGED <<parseVars, loaderVars, mainVars, closed, hand, received, valid,
                   invalid, invalidRefs, summary, streamRes, wgErr>>

\* the send of line 216 meets the receive of line 219 (capacity 0)
Handoff ==
    /\ prod = "send"
    /\ pc = "recv"
    /\ hand' = Len(emitted)
    /\ received' = received + 1
    /\ prod' = "run"
    /\ pc' = "classify"
    /\ UNCHANGED <<parseVars, loaderVars, exitStatus, emitted, closed, validations,
                   valid, invalid, invalidRefs, summary, streamRes, wgErr>>

\* the backend is done (res = "nil") or fails (res = "error"): it closes
\* the channel
StreamClose(res) ==
    /\ prod = "run"
    /\ closed' = TRUE
    /\ streamRes' = res
    /\ prod' = "closed"
    /\ UNCHANGED <<parseVars, loaderVars, mainVars, emitted, hand, received,
                   validations, valid, invalid, invalidRefs, summary, wgErr>>

\* StreamBlobs returns and wg.Go records its result (lines 215-217)
StreamReturn ==
    /\ prod = "closed"
    /\ wgErr' = streamRes
    /\ prod' = "done"
    /\ UNCHANGED <<parseVars, loaderVars, mainVars, emitted, closed, hand, received,
                   validations, valid, invalid, invalidRefs, summary,
                   streamRes>>

\* line 220: blob.ValidContents(ctx) == nil, for the blob with ref b
ContentsOkMutantInverted(b) == ~emitted[b]

ContentsOk(b) == emitted[b]

\* where the loop goes after an invalid blob: on to the next receive
AfterInvalidMutantBreak == "summary"

AfterInvalid == "recv"

\* the loop body, lines 220-230: blob.ValidContents, the tallies, the ref
\* of an invalid blob, the progress line
Classify ==
    /\ pc = "classify"
    /\ validations' = [validations EXCEPT ![hand] = @ + 1]
    /\ IF ContentsOk(hand)
       THEN /\ valid' = valid + 1
            /\ pc' = "recv"
            /\ UNCHANGED <<invalid, invalidRefs>>
       ELSE /\ invalid' = invalid + 1
            /\ invalidRefs' = Append(invalidRefs, hand)
            /\ pc' = AfterInvalid
            /\ UNCHANGED valid
    /\ hand' = 0
    /\ UNCHANGED <<parseVars, loaderVars, exitStatus, prod, emitted, closed, received,
                   summary, streamRes, wgErr>>

\* the summary line for the tallies (v, i)
SummaryOf(v, i) ==
    IF i = 0
    THEN [kind |-> "verified", invalid |-> 0, total |-> v]
    ELSE [kind |-> "corruption", invalid |-> i, total |-> v + i]

\* when the range of line 219 ends: the channel is closed
RangeDoneMutantWhenEmpty == prod # "send"

RangeDone == closed

\* line 219 on the closed channel, then lines 232-236
RangeEnd ==
    /\ pc = "recv"
    /\ RangeDone
    /\ pc' = "summary"
    /\ UNCHANGED <<parseVars, loaderVars, exitStatus, pipeVars>>

PrintSummary ==
    /\ pc = "summary"
    /\ summary' = SummaryOf(valid, invalid)
    /\ pc' = "wgerr"
    /\ UNCHANGED <<parseVars, loaderVars, exitStatus, prod, emitted, closed, hand,
                   received, validations, valid, invalid, invalidRefs,
                   streamRes, wgErr>>

\* lines 240-248: the status main ends with, from wg.Err() and invalid
FinalStatusMutantTallyFirst(e, i) == IF i > 0 THEN 2 ELSE IF e = "error" THEN 1 ELSE 0

FinalStatusMutantIgnoreErr(e, i) == IF i > 0 THEN 2 ELSE 0

FinalStatus(e, i) == IF e = "error" THEN 1 ELSE IF i > 0 THEN 2 ELSE 0

\* wg.Err() waits for the producer to return (line 240); then lines 241-248
MainExit ==
    /\ pc = "wgerr"
    /\ prod = "done"
    /\ exitStatus' = FinalStatus(wgErr, invalid)
    /\ pc' = "exit"
    /\ UNCHANGED <<parseVars, loaderVars, pipeVars>>

Init ==
    /\ InitLoader(ConfSpace)
    /\ InitPipe
    /\ ParseUnused
    /\ pc = "lookup"
    /\ exitStatus = NoExit

Next ==
    \/ MainNoBs
    \/ MainCreate
    \/ ResolveStep(MainThread)
    \/ FatalDeadlock
    \/ MainCreateErr
    \/ MainNotStreamer
    \/ MainStartPipeline
    \/ \E v \in BOOLEAN : StreamNext(v)
    \/ Handoff
    \/ \E res \in {"nil", "error"} : StreamClose(res)
    \/ StreamReturn
    \/ Classify
    \/ RangeEnd
    \/ PrintSummary
    \/ MainExit

Spec == Init /\ [][Next]_vars

\* The steps the Go scheduler owes a run: every step of main and of the
\* producer goroutine.  The runtime's deadlock report is not among them:
\* a blocked main may stay blocked.
Scheduled ==
    \/ MainNoBs
    \/ MainCreate
    \/ ResolveStep(MainThread)
    \/ MainCreateErr
    \/ MainNotStreamer
    \/ MainStartPipeline
    \/ \E v \in BOOLEAN : StreamNext(v)
    \/ Handoff
    \/ \E res \in {"nil", "error"} : StreamClose(res)
    \/ StreamReturn
    \/ Classify
    \/ RangeEnd
    \/ PrintSummary
    \/ MainExit

SpecFair == Init /\ [][Next]_vars /\ WF_vars(Scheduled)

----------------------------------------------------------------------------
(* parseLowLevelConfig (main.go:130-162) and the jsonconfig.Obj it works   *)
(* on.  An Obj is a Go map from keys to JSON values; the package keeps its *)
(* bookkeeping in the same map, under "_knownkeys" (a map[string]bool) and *)
(* "_errors" (a []error).                                                  *)

\* strings, by their bytes
Chars(s) ==
    CASE s = "" -> <<>>
      [] s = "_" -> <<"_">>
      [] s = "storage-" -> <<"s", "t", "o", "r", "a", "g", "e", "-">>
      [] s = "storage-s3" -> <<"s", "t", "o", "r", "a", "g", "e", "-", "s", "3">>
      [] s = "s3" -> <<"s", "3">>
      [] s = "sync" -> <<"s", "y", "n", "c">>
      [] s = "/bs/" -> <<"/", "b", "s", "/">>
      [] s = "/a/" -> <<"/", "a", "/">>
      [] s = "_c" -> <<"_", "c">>
      [] s = "_errors" -> <<"_", "e", "r", "r", "o", "r", "s">>
      [] s = "_knownkeys" -> <<"_", "k", "n", "o", "w", "n", "k", "e", "y", "s">>
      [] s = "handler" -> <<"h", "a", "n", "d", "l", "e", "r">>
      [] s = "handlerArgs" ->
            <<"h", "a", "n", "d", "l", "e", "r", "A", "r", "g", "s">>
      [] s = "note" -> <<"n", "o", "t", "e">>
      [] s = "_note" -> <<"_", "n", "o", "t", "e">>
      [] s = "prefixes" -> <<"p", "r", "e", "f", "i", "x", "e", "s">>
      [] s = "listen" -> <<"l", "i", "s", "t", "e", "n">>
      [] s = "path" -> <<"p", "a", "t", "h">>

Strings ==
    {"", "_", "storage-", "storage-s3", "s3", "sync", "/bs/", "/a/", "_c",
     "_errors", "_knownkeys", "handler", "handlerArgs", "note", "_note",
     "prefixes", "listen", "path"}

Str(cs) == CHOOSE s \in Strings : Chars(s) = cs

\* strings.HasPrefix
HasPrefix(s, pre) ==
    /\ Len(Chars(pre)) <= Len(Chars(s))
    /\ SubSeq(Chars(s), 1, Len(Chars(pre))) = Chars(pre)

\* a TrimPrefix that trims nothing
TrimPrefixMutantKeeps(s, pre) == s

\* strings.TrimPrefix
TrimPrefix(s, pre) ==
    IF HasPrefix(s, pre)
    THEN Str(SubSeq(Chars(s), Len(Chars(pre)) + 1, Len(Chars(s))))
    ELSE s

\* the bytes in use, in ASCII order
Alphabet ==
    <<"-", "/", "3", "A", "_", "a", "b", "c", "d", "e", "f", "g", "h", "i",
      "k", "l", "n", "o", "p", "r", "s", "t", "w", "x", "y">>

Code(ch) == CHOOSE i \in 1..Len(Alphabet) : Alphabet[i] = ch

RECURSIVE LessSeq(_, _)
LessSeq(a, b) ==
    IF b = <<>> THEN FALSE
    ELSE IF a = <<>> THEN TRUE
    ELSE IF Code(Head(a)) # Code(Head(b)) THEN Code(Head(a)) < Code(Head(b))
    ELSE LessSeq(Tail(a), Tail(b))

Less(s, u) == LessSeq(Chars(s), Chars(u))

\* sort.Strings
RECURSIVE SortStrings(_)
SortStrings(S) ==
    IF S = {} THEN <<>>
    ELSE LET least == CHOOSE x \in S : \A y \in S \ {x} : Less(x, y)
         IN  <<least>> \o SortStrings(S \ {least})

\* the values in an Obj: JSON numbers, strings and objects, and the two
\* Go values of the bookkeeping keys
JNum == [t |-> "num", s |-> "", o |-> <<>>, k |-> {}, e |-> <<>>]
JStr(x) == [JNum EXCEPT !.t = "str", !.s = x]
JObj(f) == [JNum EXCEPT !.t = "obj", !.o = f]
KnownKeys(S) == [JNum EXCEPT !.t = "known", !.k = S]
ErrorList(q) == [JNum EXCEPT !.t = "errs", !.e = q]

EmptyObj == <<>>

Del(m, K) == [x \in (DOMAIN m) \ K |-> m[x]]

\* an Obj in the hands of the package: jc is the map, panic tells that a
\* type assertion on a bookkeeping key has failed
Sound(jc) == [jc |-> jc, panic |-> FALSE]

Panicked(M) == [M EXCEPT !.panic = TRUE]

ErrorOf(m, key) == [m |-> m, key |-> key]

\* jc.noteKnownKey(key): jc["_knownkeys"].(map[string]bool)[key] = true
noteKnownKey(M, key) ==
    IF M.panic THEN M
    ELSE IF ~Has(M.jc, "_knownkeys")
    THEN [M EXCEPT !.jc = Put(M.jc, "_knownkeys", KnownKeys({key}))]
    ELSE IF M.jc["_knownkeys"].t # "known" THEN Panicked(M)
    ELSE [M EXCEPT !.jc = Put(M.jc, "_knownkeys",
                              KnownKeys(M.jc["_knownkeys"].k \cup {key}))]

\* jc.appendError(err): jc["_errors"] = append(ei.([]error), err)
appendError(M, err) ==
    IF M.panic THEN M
    ELSE IF ~Has(M.jc, "_errors")
    THEN [M EXCEPT !.jc = Put(M.jc, "_errors", ErrorList(<<err>>))]
    ELSE IF M.jc["_errors"].t # "errs" THEN Panicked(M)
    ELSE [M EXCEPT !.jc = Put(M.jc, "_errors",
                              ErrorList(Append(M.jc["_errors"].e, err)))]

\* jc.RequiredObject(key), its effect on jc
RequiredObject(M, key) ==
    LET N == noteKnownKey(M, key)
    IN  IF N.panic THEN N
        ELSE IF ~Has(N.jc, key) THEN appendError(N, ErrorOf("missing", key))
        ELSE IF N.jc[key].t # "obj"
        THEN appendError(N, ErrorOf("not an object", key))
        ELSE N

\* jc.RequiredObject(key), the Obj it returns: the one in the map, or a
\* new empty one after an error
ObjectAt(jc, key) ==
    IF Has(jc, key) /\ jc[key].t = "obj" THEN jc[key].o ELSE EmptyObj

\* jc.RequiredString(key), its effect on jc
RequiredString(M, key) ==
    LET N == noteKnownKey(M, key)
    IN  IF N.panic THEN N
        ELSE IF ~Has(N.jc, key) THEN appendError(N, ErrorOf("missing", key))
        ELSE IF N.jc[key].t # "str"
        THEN appendError(N, ErrorOf("not a string", key))
        ELSE N

\* jc.RequiredString(key), the string it returns
StringAt(jc, key) ==
    IF Has(jc, key) /\ jc[key].t = "str" THEN jc[key].s ELSE ""

\* jc.UnknownKeys() panics on a "_knownkeys" that is no map[string]bool
UnknownKeysPanics(jc) == Has(jc, "_knownkeys") /\ jc["_knownkeys"].t # "known"

\* jc.UnknownKeys(): the keys no Required call has named, those with a
\* leading underscore left out, sorted
UnknownKeys(jc) ==
    LET known == IF Has(jc, "_knownkeys") THEN jc["_knownkeys"].k ELSE {}
    IN  SortStrings({k \in DOMAIN jc : k \notin known /\ ~HasPrefix(k, "_")})

\* deleteUnknownFields(obj), lines 118-124
deleteUnknownFields(M) ==
    IF M.panic THEN M
    ELSE IF UnknownKeysPanics(M.jc) THEN Panicked(M)
    ELSE [M EXCEPT !.jc = Del(M.jc, {UnknownKeys(M.jc)[i] :
                                       i \in 1..Len(UnknownKeys(M.jc))})]

RECURSIVE AppendUnknown(_, _)
AppendUnknown(M, q) ==
    IF q = <<>> THEN M
    ELSE AppendUnknown(appendError(M, ErrorOf("unknown", Head(q))), Tail(q))

\* a Validate that lets unknown keys be
ValidateMutantAllowsUnknown(M) ==
    IF M.panic THEN M
    ELSE IF UnknownKeysPanics(M.jc) THEN Panicked(M)
    ELSE IF Has(M.jc, "_errors") /\ M.jc["_errors"].t # "errs"
    THEN Panicked(M)
    ELSE M

\* jc.Validate(), its effect on jc
Validate(M) ==
    IF M.panic THEN M
    ELSE IF UnknownKeysPanics(M.jc) THEN Panicked(M)
    ELSE LET N == AppendUnknown(M, UnknownKeys(M.jc))
         IN  IF N.panic THEN N
             ELSE IF Has(N.jc, "_errors") /\ N.jc["_errors"].t # "errs"
             THEN Panicked(N)
             ELSE N

\* jc.Validate(), the errors it returns, joined; <<>> is nil
ErrorsOf(jc) == IF Has(jc, "_errors") THEN jc["_errors"].e ELSE <<>>

(* The documents of SpecParse.  "/bs/" takes every entry over the fields  *)
(* below with at most MaxExtra fields besides handler and handlerArgs;     *)
(* "/a/" takes one of a few entries; at most one key of prefixes has a     *)
(* leading underscore.                                                     *)

Absent == [JNum EXCEPT !.t = "absent"]

WithField(m, key, v) == IF v = Absent THEN m ELSE Put(m, key, v)

WithFields(m, K, v) == [x \in (DOMAIN m) \cup K |-> IF x \in K THEN v ELSE m[x]]

ExtraFields == {"note", "_note", "_errors", "_knownkeys"}

HandlerValues == {JNum, JStr("storage-s3"), JStr("storage-"), JStr("sync")}

PathArgs == [x \in {"path"} |-> JNum]

ArgsValues == {JNum, JObj(EmptyObj), JObj(PathArgs)}

Entry(h, a, E) ==
    WithFields(WithField(WithField(EmptyObj, "handler", h), "handlerArgs", a),
               E, JNum)

EntryObjs ==
    {Entry(h, a, E) : h \in HandlerValues \cup {Absent},
                      a \in ArgsValues \cup {Absent},
                      E \in {F \in SUBSET ExtraFields : Cardinality(F) <= MaxExtra}}

BsValues == {Absent, JNum} \cup {JObj(e) : e \in EntryObjs}

OtherValues ==
    {Absent, JNum,
     JObj(Entry(JStr("storage-s3"), JObj(PathArgs), {})),
     JObj(Entry(JStr("storage-s3"), JObj(EmptyObj), {"note"})),
     JObj(Entry(JStr("sync"), Absent, {"note"})),
     JObj(Entry(Absent, JObj(EmptyObj), {}))}

\* the one key with a leading underscore, and its value
Comments ==
    {<<"_c", Absent>>, <<"_c", JNum>>, <<"_c", JObj(Entry(Absent, Absent, {"note"}))>>,
     <<"_errors", JNum>>, <<"_knownkeys", JNum>>,
     <<"_errors", JObj(Entry(JStr("storage-s3"), JObj(EmptyObj), {}))>>}

\* the keys under prefixes
DocKeys == {"/bs/", "/a/"} \cup {c[1] : c \in Comments}

PrefixesObjs ==
    {WithField(WithField(WithField(EmptyObj, "/bs/", b), "/a/", a), c[1], c[2]) :
        b \in BsValues, a \in OtherValues, c \in Comments}

DocSpace ==
    {WithField(WithField(EmptyObj, "prefixes", v), "listen", l) :
        v \in {Absent, JNum} \cup {JObj(P) : P \in PrefixesObjs},
        l \in {Absent, JNum}}

(* SpecParse: parseLowLevelConfig on a document of DocSpace, the range    *)
(* over prefixes in any order, then the same call once more on the         *)
(* document as the first call left it, or a Loader made from the result.   *)

PanicAt(p) == [kind |-> "panic", at |-> p, msgs |-> <<>>]

ErrorAt(p, q) == [kind |-> "error", at |-> p, msgs |-> q]

NonNil(m) == [isNil |-> FALSE, m |-> m]

loaderRest == <<sto, mu, stack, ret, nextInst, calls, log>>

\* lines 131-134
ParseStart ==
    /\ ppc = "start"
    /\ LET O == deleteUnknownFields(RequiredObject(Sound(doc), "prefixes"))
       IN  IF O.panic
           THEN /\ perr' = PanicAt("")
                /\ ppc' = "done"
                /\ UNCHANGED <<doc, todo, result>>
           ELSE /\ doc' = O.jc
                /\ todo' = DOMAIN ObjectAt(doc, "prefixes")
                /\ result' = <<>>
                /\ ppc' = "loop"
                /\ UNCHANGED perr
    /\ UNCHANGED <<conf, loaderRest, mainVars, pipeVars, doc0, returned,
                   pass, first>>

\* the entry of the result for a "storage-" handler, lines 142-146
StorageConfig(name, args) == [handler |-> name, args |-> args]

\* a range that ends after its first key
RemainingMutantStopsAfterOne(keys, p) == {}

\* the keys the range has yet to visit after p: every key is visited once
Remaining(keys, p) == keys \ {p}

\* lines 135-154: the body of the range for the key p.  The keys that
\* noteKnownKey and appendError add to prefixes while the range runs have
\* a leading underscore: visited or not, line 136 skips them.
ParsePrefix(p) ==
    /\ ppc = "loop"
    /\ p \in todo
    /\ todo' = Remaining(todo, p)
    /\ IF HasPrefix(p, "_")
       THEN UNCHANGED <<doc, result, returned, perr, ppc>>
       ELSE LET prefixes == ObjectAt(doc, "prefixes")
                P == RequiredObject(Sound(prefixes), p)
                handler == ObjectAt(prefixes, p)
                H == RequiredString(Sound(handler), "handler")
                name == StringAt(handler, "handler")
                storageName == TrimPrefix(name, "storage-")
                G == IF storageName # name
                     THEN RequiredObject(H, "handlerArgs")
                     ELSE deleteUnknownFields(H)
                V == Validate(G)
                kept == IF Has(prefixes, p) /\ prefixes[p].t = "obj"
                        THEN Put(P.jc, p, JObj(V.jc))
                        ELSE P.jc
            IN  IF P.panic \/ V.panic
                THEN /\ perr' = PanicAt(IF P.panic THEN "prefixes" ELSE p)
                     /\ ppc' = "done"
                     /\ UNCHANGED <<doc, result, returned>>
                ELSE /\ doc' = Put(doc, "prefixes", JObj(kept))
                     /\ result' =
                           IF storageName # name
                           THEN Put(result, p,
                                    StorageConfig(storageName,
                                                  ObjectAt(handler, "handlerArgs")))
                           ELSE result
                     /\ IF ErrorsOf(V.jc) # <<>>
                        THEN /\ perr' = ErrorAt(p, ErrorsOf(V.jc))
                             /\ returned' = NilMap
                             /\ ppc' = "done"
                        ELSE UNCHANGED <<returned, perr, ppc>>
    /\ UNCHANGED <<conf, loaderRest, mainVars, pipeVars, doc0, pass, first>>

\* lines 155-161, once the range is over
ParseValidate ==
    /\ ppc = "loop"
    /\ todo = {}
    /\ ppc' = "done"
    /\ LET O == Validate(Sound(doc))
           P == Validate(Sound(ObjectAt(O.jc, "prefixes")))
       IN  IF O.panic
           THEN perr' = PanicAt("") /\ UNCHANGED <<doc, returned>>
           ELSE IF ErrorsOf(O.jc) # <<>>
           THEN /\ perr' = ErrorAt("", ErrorsOf(O.jc))
                /\ doc' = O.jc
                /\ returned' = NilMap
           ELSE IF P.panic
           THEN perr' = PanicAt("prefixes") /\ UNCHANGED <<doc, returned>>
           ELSE /\ doc' = Put(O.jc, "prefixes", JObj(P.jc))
                /\ IF ErrorsOf(P.jc) # <<>>
                   THEN /\ perr' = ErrorAt("prefixes", ErrorsOf(P.jc))
                        /\ returned' = NilMap
                   ELSE /\ perr' = NoErr
                        /\ returned' = NonNil(result)
    /\ UNCHANGED <<conf, loaderRest, mainVars, pipeVars, doc0, todo, result,
                   pass, first>>

\* the same document is translated once more, as the first call left it
ParseAgain ==
    /\ ppc = "done"
    /\ pass = 1
    /\ perr.kind # "panic"
    /\ pass' = 2
    /\ first' = [returned |-> returned, perr |-> perr]
    /\ returned' = NilMap
    /\ perr' = NoErr
    /\ ppc' = "start"
    /\ UNCHANGED <<conf, loaderRest, mainVars, pipeVars, doc0, doc, todo,
                   result>>

\* the keys of the document's prefixes object that are prefixes, not
\* comments
PrefixKeys(d) == {p \in DOMAIN ObjectAt(d, "prefixes") : ~HasPrefix(p, "_")}

\* NewLoader(lowLevelConfig) on the result of the first translation, and
\* ld.GetStorage(p) for a prefix p of the document that the result lacks
ParseResolve(p) ==
    /\ ppc = "done"
    /\ pass = 1
    /\ ~returned.isNil
    /\ p \in PrefixKeys(doc0)
    /\ ~Has(returned.m, p)
    /\ conf' = returned.m
    /\ ppc' = "resolve"
    /\ stack' = Push(ClientThread, Frame("GetStorage", p, "lock", 0))
    /\ ret' = [ret EXCEPT ![ClientThread] = NoRet]
    /\ calls' = calls + 1
    /\ UNCHANGED <<sto, mu, nextInst, log, mainVars, pipeVars, doc0, doc,
                   todo, result, returned, perr, pass, first>>

EmptyConf == <<>>

ParseInit ==
    /\ InitLoader({EmptyConf})
    /\ InitPipe
    /\ pc = "unused"
    /\ exitStatus = NoExit
    /\ doc0 \in DocSpace
    /\ doc = doc0
    /\ ppc = "start"
    /\ todo = {}
    /\ result = <<>>
    /\ returned = NilMap
    /\ perr = NoErr
    /\ pass = 1
    /\ first = <<>>

ParseNext ==
    \/ ParseStart
    \/ \E p \in DocKeys : ParsePrefix(p)
    \/ ParseValidate
    \/ ParseAgain
    \/ \E p \in DocKeys : ParseResolve(p)
    \/ Lock(ClientThread)
    \/ GetStorageNoConf(ClientThread)

SpecParse == ParseInit /\ [][ParseNext]_vars

----------------------------------------------------------------------------
(* Properties of the run of main (Spec) *)

\* the refs of the emitted blobs whose contents do not validate
Tampered == {i \in 1..Len(emitted) : ~emitted[i]}

SeqRange(q) == {q[i] : i \in 1..Len(q)}

\* main has ended after the loop ran
RunEnded == pc = "exit" /\ prod # "idle"

\* C1: pipeline completeness.  When the producer has streamed N blobs, K
\* of them failing validation, and has returned nil, the run ends with
\* valid = N-K and invalid = K, the refs printed as invalid are exactly
\* those of the K failing blobs, each once, and the exit status is 0 when
\* K = 0 and 2 when K > 0.
C1_PipelineCompleteness ==
    (RunEnded /\ wgErr = "nil") =>
        /\ valid = Len(emitted) - Cardinality(Tampered)
        /\ invalid = Cardinality(Tampered)
        /\ SeqRange(invalidRefs) = Tampered
        /\ Len(invalidRefs) = Cardinality(Tampered)
        /\ exitStatus = IF Tampered = {} THEN 0 ELSE 2

C1_Witness ==
    /\ RunEnded
    /\ wgErr = "nil"
    /\ Len(emitted) = 2
    /\ Cardinality(Tampered) = 1
    /\ exitStatus = 2

\* C2 as stated: whenever the final tally has invalid > 0 the run ends with
\* exit status 2, whether or not the producer returned an error, and exit
\* status 0 is reached only when invalid = 0.
C2_CorruptionAlwaysExits2 ==
    /\ (RunEnded /\ invalid > 0) => exitStatus = 2
    /\ exitStatus = 0 => invalid = 0

\* C2 as amended: whenever the final tally has invalid > 0 the summary is
\* the "CORRUPTION DETECTED" one, whether or not the producer returned an
\* error; the exit status is then 2 if the producer returned nil and 1 if
\* it returned an error; exit status 0 is reached only when invalid = 0.
C2_CorruptionOutcome ==
    /\ (RunEnded /\ invalid > 0) =>
          /\ summary = [kind |-> "corruption", invalid |-> invalid,
                        total |-> valid + invalid]
          /\ exitStatus = IF wgErr = "error" THEN 1 ELSE 2
    /\ exitStatus = 0 => invalid = 0

C2_Witness ==
    /\ RunEnded
    /\ invalid > 0
    /\ wgErr = "error"
    /\ exitStatus = 1
    /\ summary.kind = "corruption"

\* C3: streaming fault after partial success.  If the producer emits M
\* blobs that all validate and then fails, the consumer has classified all
\* M (valid = M, invalid = 0), the summary with those tallies is printed
\* before the process exits, and the exit status is 1.  No run whose
\* producer failed exits with any status but 1.
C3_StreamingFaultAfterPartialSuccess ==
    /\ (RunEnded /\ wgErr = "error" /\ Tampered = {}) =>
          /\ valid = Len(emitted)
          /\ invalid = 0
          /\ summary = [kind |-> "verified", invalid |-> 0,
                        total |-> Len(emitted)]
          /\ exitStatus = 1
    /\ (RunEnded /\ wgErr = "error") => exitStatus = 1
    /\ (prod # "idle" /\ exitStatus # NoExit) => summary # NoSummary

C3_Witness ==
    /\ RunEnded
    /\ wgErr = "error"
    /\ Len(emitted) = 2
    /\ Tampered = {}
    /\ exitStatus = 1

\* the number of blobs the consumer has classified
Classified == valid + invalid

\* C4, the accounting: every blob the consumer received is counted in
\* valid or invalid as soon as its loop iteration is over (the blob in
\* hand is the only one received and not yet counted), each blob is
\* validated exactly once when it is classified and never before, and the
\* consumer leaves the loop only on the closed channel, with every emitted
\* blob received and classified.
C4_Accounting ==
    /\ Classified + (IF hand = 0 THEN 0 ELSE 1) = received
    /\ pc # "classify" => hand = 0
    /\ received <= Len(emitted)
    /\ \A i \in 1..Len(emitted) :
          validations[i] = IF i <= Classified THEN 1 ELSE 0
    /\ pc \in {"summary", "wgerr", "exit"} /\ prod # "idle" =>
          /\ closed
          /\ received = Len(emitted)
          /\ Classified = Len(emitted)

\* C4, the steps: neither counter ever decreases, and classifying an
\* invalid blob leaves the consumer at the receive of the loop.
C4_Steps ==
    /\ valid' >= valid
    /\ invalid' >= invalid
    /\ invalid' > invalid => pc' = "recv"

\* C4: a corrupt blob never aborts the run.
C4_CorruptBlobNeverAborts == []C4_Accounting /\ [][C4_Steps]_vars

\* an invalid blob was classified, and a later blob after it
C4_Witness ==
    /\ invalidRefs # <<>>
    /\ invalidRefs[1] < Classified
    /\ Classified = Len(emitted)
    /\ pc = "exit"

\* the "/bs/" backend was constructed
BsConstructed ==
    \E i \in 1..Len(log) : log[i].op = "new" /\ log[i].prefix = BsPrefix

Unsupported == Has(conf, BsPrefix) /\ ~IsStreamer(conf[BsPrefix].handler)

\* C9: unsupported backend.  When the "/bs/" backend does not implement
\* BlobStreamer, no producer is ever started and no blob is emitted,
\* received or counted; once the backend is constructed the very next
\* step of main is the exit with status 1, and no other status follows.
C9_State ==
    Unsupported =>
        /\ prod = "idle"
        /\ emitted = <<>>
        /\ received = 0
        /\ Classified = 0
        /\ summary = NoSummary
        /\ BsConstructed => /\ exitStatus \in {NoExit, 1}
                            /\ pc \in {"create", "exit"}
                            /\ pc = "exit" => exitStatus = 1

C9_Step ==
    (Unsupported /\ pc = "create" /\ Idle(MainThread)
        /\ ret[MainThread].kind = "ok")
    => (pc' = "exit" /\ exitStatus' = 1)

C9_UnsupportedBackend == []C9_State /\ [][C9_Step]_vars

C9_Witness ==
    /\ Unsupported
    /\ BsConstructed
    /\ pc = "exit"
    /\ exitStatus = 1

\* C10: missing entry point.  When the configuration has no "/bs/" entry,
\* main goes from the lookup straight to exit status 1: the factory is
\* never called, the Loader is never used, and no producer is started.
C10_MissingEntryPoint ==
    ~Has(conf, BsPrefix) =>
        /\ log = <<>>
        /\ stack[MainThread] = <<>>
        /\ sto = NilMap
        /\ prod = "idle"
        /\ emitted = <<>>
        /\ \/ pc = "lookup" /\ exitStatus = NoExit
           \/ pc = "exit" /\ exitStatus = 1

C10_Witness ==
    /\ ~Has(conf, BsPrefix)
    /\ conf # <<>>
    /\ pc = "exit"
    /\ exitStatus = 1

----------------------------------------------------------------------------
(* Properties of the Loader (SpecLoader) *)

\* the positions of the log where operation o was logged for prefix p
Ops(p, o) == {i \in 1..Len(log) : log[i].op = o /\ log[i].prefix = p}

\* i and j are two successful GetStorage(p) results, one after the other,
\* with no other GetStorage(p) result and no SetStorage(p) in between
Sequential(p, i, j) ==
    /\ i \in Ops(p, "get")
    /\ j \in Ops(p, "get")
    /\ i < j
    /\ \A k \in Ops(p, "get") \cup Ops(p, "set") : ~(i < k /\ k < j)

\* C5: resolver idempotence.  Two sequential successful GetStorage(p) calls
\* return the same instance and the factory is not called for p between
\* them; when the cache entry of p is the Loader's own (no SetStorage(p)
\* came before), the backend of p was constructed and cached exactly once.
C5_ResolverIdempotence ==
    \A p \in Prefixes : \A i, j \in 1..Len(log) :
        Sequential(p, i, j) =>
            /\ log[i].sto = log[j].sto
            /\ \A k \in Ops(p, "create") : ~(i < k /\ k < j)
            /\ Ops(p, "set") \cap 1..j = {} =>
                  Cardinality(Ops(p, "cache") \cap 1..j) = 1

C5_Witness ==
    \E p \in Prefixes : \E i, j \in 1..Len(log) :
        /\ Sequential(p, i, j)
        /\ Ops(p, "set") = {}
        /\ Ops(p, "cache") # {}

\* thread t is inside ld.mu.Lock() while t itself holds ld.mu: nobody else
\* can unlock, so t never leaves the call
SelfBlocked(t) == HasTop(t) /\ Top(t).pc = "lock" /\ mu = t

\* C6 as stated: with an acyclic configuration no GetStorage call is ever
\* stuck for good: every call goes on to return a backend or an error.
C6_AcyclicResolutionReturns ==
    Acyclic(conf) => \A t \in Threads : ~SelfBlocked(t)

\* thread t waits for the lock in a GetStorage call made by a
\* construction that a GetStorage frame lower on t's own stack started,
\* and that lower frame is the one holding the lock
WaitsOnOwnStack(t) ==
    /\ HasTop(t)
    /\ Top(t).fn = "GetStorage"
    /\ Top(t).pc = "lock"
    /\ \E k \in 1..(Len(stack[t]) - 1) :
          /\ stack[t][k].fn = "GetStorage"
          /\ stack[t][k].pc = "create"
          /\ mu = t

\* C7 as stated: with a cyclic configuration, the state in which a caller
\* waits on the lock while the holder waits on that caller's own call
\* stack is unreachable.
C7_CyclicConfigNeverDeadlocksLock ==
    ~Acyclic(conf) => \A t \in Threads : ~WaitsOnOwnStack(t)

\* the instances ever associated with prefix p: constructed for it by the
\* factory, cached under it by GetStorage, or stored under it by SetStorage
Assoc(p) ==
    {log[i].sto : i \in Ops(p, "new") \cup Ops(p, "cache") \cup Ops(p, "set")}

\* C8 as stated: no prefix has ever been associated with two different
\* instances, and the factory is never called for a prefix that already
\* has an instance.
C8_OneInstancePerPrefix ==
    \A p \in Prefixes :
        /\ Cardinality(Assoc(p)) <= 1
        /\ \A i \in Ops(p, "new") \cup Ops(p, "cache") \cup Ops(p, "set") :
           \A j \in Ops(p, "create") \cup Ops(p, "direct") : j < i

----------------------------------------------------------------------------
(* main's run path over leaf sub-prefixes (Spec) *)

Leaf(c, p) == Has(c, p) /\ Arity(c[p].handler) = 0

\* "/bs/" is a backend over sub-prefixes (blobpacked over two, replica
\* over one) that are all configured as backends of their own
OverLeaves(c) ==
    /\ Has(c, BsPrefix)
    /\ RefsOf(c, BsPrefix) # {}
    /\ \A q \in RefsOf(c, BsPrefix) : Leaf(c, q)

\* the resolver is at rest: no call in progress, the mutex free
AtRest == Idle(MainThread) /\ mu = Unlocked

C19_State ==
    OverLeaves(conf) =>
        /\ ~SelfBlocked(MainThread)
        /\ pc # "fatal"
        /\ Len(stack[MainThread]) <= 3
        /\ mu # Unlocked => Holding(MainThread) /\ Len(stack[MainThread]) >= 2
        /\ \A p \in Prefixes :
              /\ Cardinality(Ops(p, "create")) <= 1
              /\ Cardinality(Ops(p, "new")) <= 1
              /\ Has(sto.m, p) <=> Ops(p, "cache") # {}
        /\ Ops(BsPrefix, "create") = {}
        /\ BsConstructed =>
              /\ DOMAIN sto.m = RefsOf(conf, BsPrefix)
              /\ \A q \in RefsOf(conf, BsPrefix) :
                    /\ Cardinality(Ops(q, "create")) = 1
                    /\ Cardinality(Ops(q, "cache")) = 1
                    /\ Ops(q, "fail") = {}
              /\ Cardinality({i \in 1..Len(log) : log[i].op = "get"})
                    = Len(conf[BsPrefix].args)
        /\ prod # "idle" => BsConstructed /\ AtRest

C19_Step ==
    OverLeaves(conf) /\ prod # "idle" => UNCHANGED loaderVars

\* C19: on main's run path, with "/bs/" over sub-prefixes that are leaf
\* backends, the construction never blocks: each nested GetStorage takes
\* the mutex and gives it back, each sub-prefix is constructed once, and
\* the resolver is at rest, for good, before the producer starts.
C19_RunPathOverLeaves ==
    /\ []C19_State
    /\ [][C19_Step]_vars

\* a packing backend over two different leaf sub-prefixes was verified
C19_Witness ==
    /\ OverLeaves(conf)
    /\ conf[BsPrefix].handler = "blobpacked"
    /\ Cardinality(RefsOf(conf, BsPrefix)) = 2
    /\ pc = "exit"
    /\ exitStatus = 0
    /\ valid = MaxBlobs

----------------------------------------------------------------------------
(* Properties of the pipeline under fair scheduling (SpecFair) *)

\* the step in which main reads the producer's completion status
ReadsStatus == pc = "wgerr" /\ pc' = "exit"

Drained ==
    /\ closed
    /\ prod = "done"
    /\ hand = 0
    /\ Classified = Len(emitted)
    /\ \A b \in SeqRange(validations) : b = 1

C15_DrainBeforeCheck == ReadsStatus => Drained

\* C15: once the pipeline has started on a finite stream whose producer
\* closes the channel both when exhausted and when it fails, the run
\* eventually exits; and the producer's completion status is read only
\* after the channel is closed and every emitted blob is classified.
C15_TerminationAndDrain ==
    /\ (prod # "idle") ~> (pc = "exit")
    /\ [][C15_DrainBeforeCheck]_vars

\* a run that exited after a stream of MaxBlobs blobs that then failed
C15_Witness ==
    /\ pc = "exit"
    /\ Len(emitted) = MaxBlobs
    /\ streamRes = "error"
    /\ Classified = MaxBlobs

(* Ordering and back-pressure in the run of main (Spec) *)

\* make(chan blobserver.BlobAndToken): no buffer
ChanCap == 0

StrictlyIncreasing(q) == \A i, j \in 1..Len(q) : i < j => q[i] < q[j]

\* C16: the blobs the consumer has classified are, in order, a prefix of
\* the blobs the producer emitted, and the producer is never more blobs
\* ahead of the consumer than the channel's capacity allows.
C16_OrderingAndBackPressure ==
    /\ Classified <= received
    /\ received <= Len(emitted)
    /\ \A i \in 1..Len(emitted) :
          validations[i] = IF i <= Classified THEN 1 ELSE 0
    /\ hand \in {0, Classified + 1}
    /\ hand # 0 <=> received = Classified + 1
    /\ StrictlyIncreasing(invalidRefs)
    /\ Len(emitted) - received <= ChanCap + 1
    /\ Len(emitted) - received = 1 <=> prod = "send"

\* the producer is blocked in the send of its second blob while the
\* consumer still holds the first
C16_Witness ==
    /\ prod = "send"
    /\ pc = "classify"
    /\ hand = 1
    /\ Len(emitted) = 2

----------------------------------------------------------------------------
(* A failing GetStorage (SpecLoader) *)

\* the step in which a GetStorage call returns an error
FailReturn ==
    /\ Len(log') = Len(log) + 1
    /\ log'[Len(log')].op = "fail"

FailedPrefix == log'[Len(log')].prefix

C18_FailStep ==
    FailReturn =>
        /\ ret'[ClientThread] = ErrRet
        /\ sto'.m = sto.m
        /\ ~Has(sto'.m, FailedPrefix)
        /\ mu = ClientThread
        /\ mu' = Unlocked
        /\ ~Has(conf, FailedPrefix) =>
              /\ Ops(FailedPrefix, "create") = {}
              /\ Top(ClientThread).pc = "locked"

C18_FailState ==
    /\ \A t \in Threads : \A i \in 1..Len(stack[t]) :
          stack[t][i].fn = "GetStorage" /\ stack[t][i].pc = "create"
             => ~Has(sto.m, stack[t][i].prefix)
    /\ \A p \in Prefixes : \A i \in Ops(p, "fail") : \A j \in Ops(p, "get") :
          i < j => \E k \in Ops(p, "create") \cup Ops(p, "set") : i < k /\ k < j

\* C18: a GetStorage(p) that fails leaves the resolver as it was.  For an
\* unconfigured p no construction is run; a construction error is
\* returned to the caller; in both cases nothing is cached for p, the
\* other cached handles are untouched and the mutex is released, and a
\* later GetStorage(p) succeeds only through a new construction (or a
\* SetStorage).
C18_FailureLeavesResolverUnchanged ==
    /\ []C18_FailState
    /\ [][C18_FailStep]_vars

\* the construction of a configured prefix has just failed while another
\* prefix is cached
C18_Witness ==
    /\ log # <<>>
    /\ log[Len(log)].op = "fail"
    /\ Has(conf, log[Len(log)].prefix)
    /\ DOMAIN sto.m # {}
    /\ mu = Unlocked
    /\ ret[ClientThread] = ErrRet

----------------------------------------------------------------------------
(* Properties of the Loader under two concurrent clients (SpecPeers) *)

\* C17: at most one caller at a time is between Lock and Unlock, where
\* the cache map is read or written; and, for a prefix no SetStorage has
\* touched, GetStorage calls from the two threads construct and cache it
\* once (a further attempt only after a failed one) and all receive the
\* same instance.
C17_MutualExclusion ==
    /\ \A t \in Threads : Holding(t) => mu = t
    /\ \A t, u \in Threads : Holding(t) /\ Holding(u) => t = u
    /\ \A p \in Prefixes :
          Ops(p, "set") = {} =>
             /\ Cardinality(Ops(p, "cache")) <= 1
             /\ Cardinality(Ops(p, "create"))
                   <= 1 + Cardinality(Ops(p, "fail"))
             /\ \A i \in Ops(p, "get") : \A j \in Ops(p, "cache") :
                   j < i /\ log[i].sto = log[j].sto

\* the peer waits in Lock for GetStorage(p) while the client, in
\* GetStorage(p) too, is constructing p under the mutex
C17_Witness ==
    \E p \in Prefixes :
        /\ HasTop(PeerThread)
        /\ Top(PeerThread).fn = "GetStorage"
        /\ Top(PeerThread).prefix = p
        /\ Top(PeerThread).pc = "lock"
        /\ Len(stack[ClientThread]) = 2
        /\ stack[ClientThread][1].fn = "GetStorage"
        /\ stack[ClientThread][1].prefix = p
        /\ stack[ClientThread][1].pc = "create"
        /\ ~Has(sto.m, p)

----------------------------------------------------------------------------
(* Properties of the translation (SpecParse) *)

Translated == ppc = "done"

Succeeded == Translated /\ ~returned.isNil /\ perr = NoErr

\* the value under prefixes[p] in document d
EntryOf(d, p) == ObjectAt(d, "prefixes")[p]

\* the entry v is an object whose handler is a string "storage-<name>"
StorageForm(v) ==
    /\ v.t = "obj"
    /\ Has(v.o, "handler")
    /\ v.o["handler"].t = "str"
    /\ HasPrefix(v.o["handler"].s, "storage-")

\* <name> of "storage-<name>"
NameOf(h) == Str(SubSeq(Chars(h), Len(Chars("storage-")) + 1, Len(Chars(h))))

\* a well-formed entry: an object with a string handler and, for a
\* "storage-" handler, an object handlerArgs and nothing else
WellFormedEntry(v) ==
    /\ v.t = "obj"
    /\ Has(v.o, "handler")
    /\ v.o["handler"].t = "str"
    /\ StorageForm(v) =>
          /\ DOMAIN v.o = {"handler", "handlerArgs"}
          /\ v.o["handlerArgs"].t = "obj"
    /\ ~StorageForm(v) => DOMAIN v.o = {"handler"}

\* every entry under prefixes, whatever its key, is well formed
WellFormed(d) ==
    /\ Has(d, "prefixes")
    /\ d["prefixes"].t = "obj"
    /\ \A p \in DOMAIN ObjectAt(d, "prefixes") : WellFormedEntry(EntryOf(d, p))

\* the ResolvedConfig the document stands for
Expected(d) ==
    [p \in {q \in PrefixKeys(d) : StorageForm(EntryOf(d, q))} |->
        StorageConfig(NameOf(EntryOf(d, p).o["handler"].s),
                      ObjectAt(EntryOf(d, p).o, "handlerArgs"))]

\* C11 as stated: for every document whose prefixes entries are well
\* formed the translation returns a ResolvedConfig whose keys are exactly
\* the prefixes without a leading "_" whose handler is "storage-<name>",
\* each mapped to (<name>, that entry's handlerArgs).
C11_ConfigRoundTrip ==
    Translated /\ WellFormed(doc0) =>
        /\ Succeeded
        /\ returned.m = Expected(doc0)

\* the key a document must not use for C11 to hold of it
ReservedKeys == {"_errors", "_knownkeys"}

\* what holds of the round trip: documents without a reserved key
C11_WithoutReservedKeys ==
    /\ Translated
    /\ WellFormed(doc0)
    /\ DOMAIN ObjectAt(doc0, "prefixes") \cap ReservedKeys = {}
    => Succeeded /\ returned.m = Expected(doc0)

\* a round trip with two entries in the result
C11_TwoEntries ==
    /\ Succeeded
    /\ WellFormed(doc0)
    /\ DOMAIN returned.m = {"/bs/", "/a/"}

\* the fields of the entry v besides handler and handlerArgs
OtherFields(v) == DOMAIN v.o \ {"handler", "handlerArgs"}

\* those of them that UnknownKeys reports: no leading underscore
StrictFields(v) == {f \in OtherFields(v) : ~HasPrefix(f, "_")}

Names(e, f) == \E i \in 1..Len(e.msgs) : e.msgs[i] = ErrorOf("unknown", f)

Faulty(v) ==
    \/ v.t # "obj"
    \/ ~Has(v.o, "handler")
    \/ v.o["handler"].t # "str"
    \/ DOMAIN v.o \cap ReservedKeys # {}
    \/ /\ StorageForm(v)
       /\ \/ ~Has(v.o, "handlerArgs")
          \/ v.o["handlerArgs"].t # "obj"
          \/ StrictFields(v) # {}

CommentKeys(d) == {p \in DOMAIN ObjectAt(d, "prefixes") : HasPrefix(p, "_")}

\* nothing but a comment key could stop the translation of d
SoundButForComments(d) ==
    /\ Has(d, "prefixes")
    /\ d["prefixes"].t = "obj"
    /\ \A q \in PrefixKeys(d) : ~Faulty(EntryOf(d, q))

\* C13 as stated: a key under prefixes with a leading "_" never appears
\* in the ResolvedConfig and its value is never validated: whatever the
\* value, it cannot make the translation fail, neither in the loop nor in
\* the final validation of the prefixes object.
C13_CommentPrefixesIgnored ==
    Translated =>
        /\ DOMAIN returned.m \cap CommentKeys(doc0) = {}
        /\ perr.at \notin CommentKeys(doc0)
        /\ SoundButForComments(doc0) => Succeeded

\* what holds of comment keys: every key but the reserved ones
C13_WithoutReservedKeys ==
    Translated /\ CommentKeys(doc0) \cap ReservedKeys = {} =>
        /\ DOMAIN returned.m \cap CommentKeys(doc0) = {}
        /\ perr.at \notin CommentKeys(doc0)
        /\ SoundButForComments(doc0) => Succeeded

\* the entry v is an object whose handler is a string without the
\* "storage-" form
NonStorage(v) ==
    /\ v.t = "obj"
    /\ Has(v.o, "handler")
    /\ v.o["handler"].t = "str"
    /\ ~HasPrefix(v.o["handler"].s, "storage-")

\* the GetStorage call on the Loader made from the result has returned
Resolved == ppc = "resolve" /\ Idle(ClientThread)

\* C14 as stated: an entry with a string handler without the "storage-"
\* form, whatever other fields it carries, never makes the translation
\* fail and never appears in the ResolvedConfig; a later GetStorage of
\* that prefix fails as an unconfigured prefix.
C14_LenientDrop ==
    \A p \in PrefixKeys(doc0) :
        NonStorage(EntryOf(doc0, p)) =>
            /\ Translated => perr.at # p /\ ~Has(returned.m, p)
            /\ ppc = "resolve" => ~Has(conf, p)
            /\ Resolved /\ log[Len(log)].prefix = p =>
                  /\ ret[ClientThread] = ErrRet
                  /\ log = <<Event("fail", p, 0)>>

\* what holds of dropped entries: those without a reserved field
C14_WithoutReservedFields ==
    \A p \in PrefixKeys(doc0) :
        /\ NonStorage(EntryOf(doc0, p))
        /\ DOMAIN EntryOf(doc0, p).o \cap ReservedKeys = {}
        => /\ Translated => perr.at # p /\ ~Has(returned.m, p)
           /\ ppc = "resolve" => ~Has(conf, p)
           /\ Resolved /\ log[Len(log)].prefix = p =>
                 /\ ret[ClientThread] = ErrRet
                 /\ log = <<Event("fail", p, 0)>>

\* a dropped "/bs/" entry with an unknown field, then GetStorage("/bs/")
C14_DroppedThenUnconfigured ==
    /\ Resolved
    /\ "/bs/" \in PrefixKeys(doc0)
    /\ NonStorage(EntryOf(doc0, "/bs/"))
    /\ OtherFields(EntryOf(doc0, "/bs/")) = {"note"}
    /\ log = <<Event("fail", "/bs/", 0)>>

\* the documents the translation accepts, told from the document alone
Accepts(d) ==
    /\ Has(d, "prefixes")
    /\ d["prefixes"].t = "obj"
    /\ DOMAIN ObjectAt(d, "prefixes") \cap ReservedKeys = {}
    /\ \A q \in PrefixKeys(d) : ~Faulty(EntryOf(d, q))

\* C20: whether the translation succeeds and the ResolvedConfig it
\* returns are functions of the document, whatever the order in which the
\* range visits the prefixes; and a second translation of the document as
\* the first left it succeeds or fails as the first did, with the same
\* ResolvedConfig.
C20_Deterministic ==
    Translated =>
        /\ Succeeded <=> Accepts(doc0)
        /\ Succeeded => returned.m = Expected(doc0)
        /\ ~Succeeded => returned.isNil /\ perr.kind \in {"error", "panic"}
        /\ pass = 2 =>
              /\ returned = first.returned
              /\ perr.kind = "none" <=> first.perr.kind = "none"

\* a second translation succeeded after the first deleted a top-level
\* key and a field of a dropped entry, with one prefix in its result
C20_Witness ==
    /\ Succeeded
    /\ pass = 2
    /\ Has(doc0, "listen")
    /\ ~Has(doc, "listen")
    /\ "/a/" \in PrefixKeys(doc0)
    /\ NonStorage(EntryOf(doc0, "/a/"))
    /\ Has(EntryOf(doc0, "/a/").o, "note")
    /\ ~Has(EntryOf(doc, "/a/").o, "note")
    /\ DOMAIN returned.m = {"/bs/"}

====
